---- MODULE Spec2Model ----
(***************************************************************************)
(* Model of the HTTP client ApiFetch (src/src/libs/api/api-fetch.ts) and   *)
(* of the OutboundService built on it                                      *)
(* (src/src/apps/outbound-manager/smilecx-outbound-manager.tsx).           *)
(*                                                                         *)
(* A JavaScript object is a TLA+ record whose DOMAIN is the set of keys    *)
(* that are present; a string that the code inspects character by          *)
(* character (a header value) is a sequence of one-character strings.      *)
(* An async method is cut at its await points: one action for the          *)
(* synchronous prefix of the verb (up to the call of fetch), one for each  *)
(* way the awaited fetch promise or body promise can settle.               *)
(***************************************************************************)
EXTENDS Integers, Sequences, FiniteSets, TLC

VARIABLES
    serverDateDiff,  \* ApiFetch.serverDateDiff
    controller,      \* ApiFetch.controller: 0 = undefined, else the id of the call that created it
    calls,           \* the invocations issued so far: id -> frame of the async method
    aborted,         \* the AbortSignals whose abort() has been called
    ret,             \* what the most recently settled invocation handed to its caller
    config,          \* ApiFetch.config: apiUrl and token (<<>> when there is none)
    request,         \* the endpoint and the URL of the most recent call of fetch
    composed,        \* the most recent call of composePath: its argument and completion
    campaigns,       \* OutboundService.campaigns$.value
    selectedCampaign,\* OutboundService.selectedCampaign$.value
    loading,         \* OutboundService.loading$.value
    tasks,           \* the calls of async OutboundService methods: id -> frame
    done,            \* the most recently settled call of an OutboundService method
    initialized,     \* StarterContainer.initialized
    loaded,          \* the modules the StarterContainer has loaded, in order
    apiConf,         \* the value bound to API_TYPES.ApiConf in the container
    inits            \* the calls of StarterContainer.init: options, awaited by the caller

apiVars == <<serverDateDiff, controller, calls, aborted, ret, config, request, composed>>
outboundVars == <<campaigns, selectedCampaign, loading, tasks, done>>
containerVars == <<initialized, loaded, apiConf, inits>>
vars == <<apiVars, outboundVars, containerVars>>

-----------------------------------------------------------------------------
(* Bounds of the model                                                     *)

\* invocations of verb methods in one run of Spec
MaxCalls == 2
\* calls of StarterContainer.init in one run of SpecContainer
MaxInits == 3
\* invocations of doGet in one run of SpecAutoCancel
MaxGets == 3
\* invocations of verb methods in one run of SpecMixed
MaxMixed == 2
\* length of the Results-Matching / Results-Skipped header values of SpecHeaders
MaxHeaderLen == 2
\* invocations of doGet in one run of SpecClock
MaxSkewCalls == 2
\* invocations of verb methods in one run of SpecUrl
MaxUrlCalls == 1
\* calls of OutboundService methods in one run of SpecOutbound
MaxTasks == 3
\* calls of async OutboundService methods in one run of SpecCampaigns
MaxOps == 2

-----------------------------------------------------------------------------
(* Values                                                                  *)

\* IEEE number that may be NaN (the result of parseInt, Date.getTime)
Num(n) == [nan |-> FALSE, val |-> n]
NaN == [nan |-> TRUE, val |-> 0]
isNaN(x) == x.nan

Digits == <<"0", "1", "2", "3", "4", "5", "6", "7", "8", "9">>
IsDigit(ch) == \E i \in 1..10 : Digits[i] = ch
DigitVal(ch) == (CHOOSE i \in 1..10 : Digits[i] = ch) - 1
IsSpace(ch) == ch = " "

RECURSIVE SkipSpaces(_)
SkipSpaces(s) == IF s # <<>> /\ IsSpace(Head(s)) THEN SkipSpaces(Tail(s)) ELSE s

\* value of the longest prefix of decimal digits of s, continuing from acc
RECURSIVE DigitsPrefix(_, _)
DigitsPrefix(s, acc) ==
    IF s # <<>> /\ IsDigit(Head(s))
    THEN DigitsPrefix(Tail(s), acc * 10 + DigitVal(Head(s)))
    ELSE acc

\* ECMAScript parseInt(s, 10): leading white space, an optional sign, then the
\* longest prefix of digits; NaN when there is no digit; the rest is ignored
parseInt(s) ==
    LET t == SkipSpaces(s)
        neg == t # <<>> /\ Head(t) = "-"
        u == IF t # <<>> /\ Head(t) \in {"-", "+"} THEN Tail(t) ELSE t
    IN  IF u = <<>> \/ ~IsDigit(Head(u))
        THEN NaN
        ELSE Num(IF neg THEN 0 - DigitsPrefix(u, 0) ELSE DigitsPrefix(u, 0))

\* the Date header values the model's servers send, with their epoch time;
\* new Date(s).getTime() is NaN for every other string
DateA == <<"D", "a", "t", "e", "A">>
DateB == <<"D", "a", "t", "e", "B">>
DateGetTime(s) ==
    IF s = DateA THEN Num(1000)
    ELSE IF s = DateB THEN Num(1040)
    ELSE NaN

\* Headers.get(name) followed by the truthiness test `if (value)`:
\* null (header absent) and the empty string are both falsy
Truthy(h, name) == name \in DOMAIN h /\ h[name] # <<>>

\* JSON.parse of the response bodies the model's servers send
JsonParse(raw) ==
    IF raw = "[{\"id\":\"1\"}]" THEN [ok |-> TRUE, value |-> "array:[id=1]"]
    ELSE IF raw = "{\"message\":\"boom\"}" THEN [ok |-> TRUE, value |-> "object:{message=boom}"]
    ELSE [ok |-> FALSE, value |-> "SyntaxError"]

-----------------------------------------------------------------------------
(* Completion of a function body: it returns a value or throws one         *)

Return(v) == [type |-> "return", value |-> v]
Throw(e) == [type |-> "throw", value |-> e]

\* values a promise can reject with
AbortError == [isError |-> TRUE, name |-> "AbortError", message |-> "The operation was aborted."]
FetchTypeError == [isError |-> TRUE, name |-> "TypeError", message |-> "Failed to fetch"]
EmptyError == [isError |-> TRUE, name |-> "Error", message |-> ""]
ThrownString == [isError |-> FALSE, name |-> "", message |-> ""]
SyntaxError == [isError |-> TRUE, name |-> "SyntaxError", message |-> "Unexpected token"]
\* what fetch throws when the request was not aborted
NetworkThrows == {FetchTypeError, EmptyError, ThrownString}

-----------------------------------------------------------------------------
(* ApiFetch.parseHeaders, ApiFetch.handleResponse, ApiFetch.handleError    *)

\* Response.ok with the upper end of the range excluded
ResponseOk_Below299(response) == response.status >= 200 /\ response.status < 299

\* Response.ok
ResponseOk(response) == response.status >= 200 /\ response.status <= 299

\* the object `headers` built by parseHeaders; now = new Date().getTime()
ParsedHeaders(response, now) ==
    LET h == response.headers
        rm == IF Truthy(h, "Results-Matching") THEN parseInt(h["Results-Matching"]) ELSE NaN
        rs == IF Truthy(h, "Results-Skipped") THEN parseInt(h["Results-Skipped"]) ELSE NaN
        sd == IF Truthy(h, "Date") THEN DateGetTime(h["Date"]) ELSE NaN
        total == IF ~isNaN(rm) /\ rm.val >= 0 THEN [total |-> rm.val] ELSE <<>>
        skipped == IF ~isNaN(rs) /\ rs.val >= 0 THEN [skipped |-> rs.val] ELSE <<>>
        link == IF Truthy(h, "Link") THEN [link |-> h["Link"]] ELSE <<>>
        diff == IF ~isNaN(sd) THEN [serverDateDiff |-> now - sd.val] ELSE <<>>
    IN  total @@ skipped @@ link @@ diff

\* a parseHeaders that resets this.serverDateDiff when the Date header is unusable
DateDiffAfter_ResetOnMalformed(response, now, old) ==
    LET headers == ParsedHeaders(response, now)
    IN  IF "serverDateDiff" \in DOMAIN headers THEN headers.serverDateDiff ELSE 0

\* the value of this.serverDateDiff after parseHeaders
DateDiffAfter(response, now, old) ==
    LET headers == ParsedHeaders(response, now)
    IN  IF "serverDateDiff" \in DOMAIN headers THEN headers.serverDateDiff ELSE old

\* {...base, ...headers}: the keys of headers are written last
Spread(base, headers) == headers @@ base

DecodeKind(type) == IF type = "json" THEN "JSON" ELSE "text"

\* handleResponse for status 204 answering with an empty body instead of none
NoContent_EmptyData(headers) == Spread([ok |-> TRUE, status |-> 204, data |-> ""], headers)

\* handleResponse, status 204 (returns before the body is touched)
NoContent(headers) == Spread([ok |-> TRUE, status |-> 204], headers)

\* handleResponse treating a decode failure like an HTTP error (status and status
\* text copied into the error object)
AfterDecode_ParseErrorWithStatus(response, type, headers, decoded) ==
    IF decoded.type = "throw"
    THEN Spread([ok |-> FALSE,
                 status |-> response.status,
                 error |-> [message |-> <<"Failed to parse ", DecodeKind(type), " response">>,
                            status |-> response.status,
                            statusText |-> response.statusText]],
                headers)
    ELSE IF ~ResponseOk(response)
    THEN Spread([ok |-> FALSE,
                 status |-> response.status,
                 data |-> decoded.value,
                 error |-> [message |-> <<"Request failed: ", ToString(response.status),
                                          " ", response.statusText>>,
                            status |-> response.status,
                            statusText |-> response.statusText]],
                headers)
    ELSE Spread([ok |-> TRUE, status |-> response.status, data |-> decoded.value], headers)

\* handleResponse discarding the body of an HTTP error
AfterDecode_ErrorBodyDropped(response, type, headers, decoded) ==
    IF decoded.type = "throw"
    THEN Spread([ok |-> FALSE,
                 status |-> response.status,
                 error |-> [message |-> <<"Failed to parse ", DecodeKind(type), " response">>]],
                headers)
    ELSE IF ~ResponseOk(response)
    THEN Spread([ok |-> FALSE,
                 status |-> response.status,
                 error |-> [message |-> <<"Request failed: ", ToString(response.status),
                                          " ", response.statusText>>,
                            status |-> response.status,
                            statusText |-> response.statusText]],
                headers)
    ELSE Spread([ok |-> TRUE, status |-> response.status, data |-> decoded.value], headers)

\* handleResponse reporting an HTTP error without the error object
AfterDecode_ErrorObjectMissing(response, type, headers, decoded) ==
    IF decoded.type = "throw"
    THEN Spread([ok |-> FALSE,
                 status |-> response.status,
                 error |-> [message |-> <<"Failed to parse ", DecodeKind(type), " response">>]],
                headers)
    ELSE IF ~ResponseOk(response)
    THEN Spread([ok |-> FALSE, status |-> response.status, data |-> decoded.value], headers)
    ELSE Spread([ok |-> TRUE, status |-> response.status, data |-> decoded.value], headers)

\* handleResponse once the body promise has settled: decoded is the completion
\* of response.json() / response.text()
AfterDecode(response, type, headers, decoded) ==
    IF decoded.type = "throw"
    THEN Spread([ok |-> FALSE,
                 status |-> response.status,
                 error |-> [message |-> <<"Failed to parse ", DecodeKind(type), " response">>]],
                headers)
    ELSE IF ~ResponseOk(response)
    THEN Spread([ok |-> FALSE,
                 status |-> response.status,
                 data |-> decoded.value,
                 error |-> [message |-> <<"Request failed: ", ToString(response.status),
                                          " ", response.statusText>>,
                            status |-> response.status,
                            statusText |-> response.statusText]],
                headers)
    ELSE Spread([ok |-> TRUE, status |-> response.status, data |-> decoded.value], headers)

\* handleError without the AbortError branch
handleError_NoAbortBranch(error) ==
    Return([ok |-> FALSE,
            error |-> [message |-> <<IF error.isError THEN error.message
                                     ELSE "Network request failed">>]])

\* handleError that rethrows what is not an Error object
handleError_Rethrow(error) ==
    IF error.isError /\ error.name = "AbortError"
    THEN Return([ok |-> FALSE, error |-> [message |-> <<"Request aborted">>]])
    ELSE IF error.isError
    THEN Return([ok |-> FALSE, error |-> [message |-> <<error.message>>]])
    ELSE Throw(error)

\* handleError answering with an empty body instead of none
handleError_EmptyData(error) ==
    IF error.isError /\ error.name = "AbortError"
    THEN Return([ok |-> FALSE, data |-> "", error |-> [message |-> <<"Request aborted">>]])
    ELSE Return([ok |-> FALSE, data |-> "",
                 error |-> [message |-> <<IF error.isError THEN error.message
                                          ELSE "Network request failed">>]])

\* ApiFetch.handleError
handleError(error) ==
    IF error.isError /\ error.name = "AbortError"
    THEN Return([ok |-> FALSE, error |-> [message |-> <<"Request aborted">>]])
    ELSE Return([ok |-> FALSE,
                 error |-> [message |-> <<IF error.isError THEN error.message
                                          ELSE "Network request failed">>]])

\* try { ... } catch (error) { return this.handleError(error) } of every verb
TryCatch(body) == IF body.type = "throw" THEN handleError(body.value) ELSE body

-----------------------------------------------------------------------------
(* Strings of URLs, the class URL, ApiFetch.composePath, ApiFetch.composeUrl *)

\* String.prototype.startsWith, String.prototype.includes
StartsWith(s, prefix) == Len(s) >= Len(prefix) /\ SubSeq(s, 1, Len(prefix)) = prefix
Includes(s, ch) == \E i \in DOMAIN s : s[i] = ch

\* position of the first character of s that is in chars, Len(s) + 1 when none is
FirstOf(s, chars) ==
    IF \E i \in DOMAIN s : s[i] \in chars
    THEN CHOOSE i \in DOMAIN s : s[i] \in chars /\ \A j \in 1..(i - 1) : s[j] \notin chars
    ELSE Len(s) + 1
From(s, i) == SubSeq(s, i, Len(s))
Before(s, i) == SubSeq(s, 1, i - 1)

RECURSIVE DropSlashes(_)
DropSlashes(s) == IF s # <<>> /\ Head(s) = "/" THEN DropSlashes(Tail(s)) ELSE s

RECURSIVE Split(_, _)
Split(s, sep) ==
    LET i == FirstOf(s, {sep})
    IN  IF i > Len(s) THEN <<s>> ELSE <<Before(s, i)>> \o Split(From(s, i + 1), sep)

RECURSIVE Concat(_)
Concat(parts) == IF parts = <<>> THEN <<>> ELSE Head(parts) \o Concat(Tail(parts))

HttpScheme == <<"h", "t", "t", "p">>
HttpsScheme == <<"h", "t", "t", "p", "s">>
AccessToken == <<"a", "c", "c", "e", "s", "s", "_", "t", "o", "k", "e", "n">>
InvalidURL == [isError |-> TRUE, name |-> "TypeError", message |-> "Invalid URL"]

\* the pattern /^((http|https):\/\/)/ of composePath
IsAbsolute(path) ==
    \/ StartsWith(path, HttpScheme \o <<":", "/", "/">>)
    \/ StartsWith(path, HttpsScheme \o <<":", "/", "/">>)

\* new URL(s) without a base, for the strings of the model (no scheme other than
\* http and https, no credentials, port, dot segment or upper case): the slashes
\* after the scheme are skipped, the host ends at "/", "?" or "#" and must not be
\* empty, an empty path becomes "/", the query ends at "#"
NewURL(s) ==
    LET scheme == IF StartsWith(s, HttpsScheme \o <<":">>) THEN HttpsScheme
                  ELSE IF StartsWith(s, HttpScheme \o <<":">>) THEN HttpScheme
                  ELSE <<>>
        rest == DropSlashes(From(s, Len(scheme) + 2))
        host == Before(rest, FirstOf(rest, {"/", "?", "#"}))
        afterHost == From(rest, Len(host) + 1)
        path == Before(afterHost, FirstOf(afterHost, {"?", "#"}))
        afterPath == From(afterHost, Len(path) + 1)
        hasQuery == afterPath # <<>> /\ Head(afterPath) = "?"
        query == IF hasQuery THEN Before(Tail(afterPath), FirstOf(Tail(afterPath), {"#"}))
                 ELSE <<>>
        afterQuery == IF hasQuery THEN From(afterPath, Len(query) + 2) ELSE afterPath
        hasFragment == afterQuery # <<>>
    IN  IF scheme = <<>> \/ host = <<>>
        THEN Throw(InvalidURL)
        ELSE Return([scheme |-> scheme, host |-> host,
                     path |-> IF path = <<>> THEN <<"/">> ELSE path,
                     hasQuery |-> hasQuery, query |-> query,
                     hasFragment |-> hasFragment,
                     fragment |-> IF hasFragment THEN Tail(afterQuery) ELSE <<>>])

\* the application/x-www-form-urlencoded parser: the query is split at "&", empty
\* pieces are dropped, each piece is a name and (after its first "=") a value
ParseQuery(query) ==
    LET pieces == SelectSeq(Split(query, "&"), LAMBDA piece : piece # <<>>)
    IN  [i \in DOMAIN pieces |->
            LET eq == FirstOf(pieces[i], {"="})
            IN  [name |-> Before(pieces[i], eq), value |-> From(pieces[i], eq + 1)]]

\* the application/x-www-form-urlencoded byte serializer for the characters of
\* the model: letters, digits and "_" are kept, the others are percent-encoded
UrlEncodeChar(ch) ==
    CASE ch = "/" -> <<"%", "2", "F">>
      [] ch = ":" -> <<"%", "3", "A">>
      [] ch = "?" -> <<"%", "3", "F">>
      [] ch = "=" -> <<"%", "3", "D">>
      [] ch = "#" -> <<"%", "2", "3">>
      [] OTHER -> <<ch>>
UrlEncode(s) == Concat([i \in DOMAIN s |-> UrlEncodeChar(s[i])])
SerializeQuery(list) ==
    Concat([i \in DOMAIN list |->
              (IF i = 1 THEN <<>> ELSE <<"&">>)
              \o UrlEncode(list[i].name) \o <<"=">> \o UrlEncode(list[i].value)])

\* url.searchParams.append(name, value): the list parsed from the query gets the
\* pair and the query of the URL is replaced by the serialized list
SearchParamsAppend(url, name, value) ==
    [url EXCEPT !.hasQuery = TRUE,
                !.query = SerializeQuery(Append(ParseQuery(url.query),
                                                [name |-> name, value |-> value]))]

\* URL.prototype.toString
URLToString(url) ==
    url.scheme \o <<":", "/", "/">> \o url.host \o url.path
    \o (IF url.hasQuery THEN <<"?">> \o url.query ELSE <<>>)
    \o (IF url.hasFragment THEN <<"#">> \o url.fragment ELSE <<>>)

\* a composePath that prepends the base URL to an absolute URL too
composePath_BaseAlways(path) ==
    LET p == config.apiUrl \o path
    IN  IF config.token # <<>>
        THEN LET withToken == NewURL(p)
             IN  IF withToken.type = "throw"
                 THEN withToken
                 ELSE Return(URLToString(SearchParamsAppend(withToken.value, AccessToken,
                                                            config.token)))
        ELSE Return(p)

\* ApiFetch.composePath (public): returns the URL or throws what new URL throws
composePath(path) ==
    LET p == IF IsAbsolute(path) THEN path ELSE config.apiUrl \o path
    IN  IF config.token # <<>>
        THEN LET withToken == NewURL(p)
             IN  IF withToken.type = "throw"
                 THEN withToken
                 ELSE Return(URLToString(SearchParamsAppend(withToken.value, AccessToken,
                                                            config.token)))
        ELSE Return(p)

\* a composeUrl that always separates the token with "?"
composeUrl_AlwaysQuestionMark(endpoint) ==
    LET normalizedEndpoint == IF StartsWith(endpoint, <<"/">>) THEN endpoint
                              ELSE <<"/">> \o endpoint
        url == config.apiUrl \o normalizedEndpoint
    IN  IF config.token # <<>>
        THEN url \o <<"?", "t", "o", "k", "e", "n", "=">> \o config.token
        ELSE url

\* ApiFetch.composeUrl (private), the composer of the verbs
composeUrl(endpoint) ==
    LET normalizedEndpoint == IF StartsWith(endpoint, <<"/">>) THEN endpoint
                              ELSE <<"/">> \o endpoint
        hasQueryParams == Includes(normalizedEndpoint, "?")
        url == config.apiUrl \o normalizedEndpoint
    IN  IF config.token # <<>>
        THEN url \o <<IF hasQueryParams THEN "&" ELSE "?">> \o <<"t", "o", "k", "e", "n", "=">>
                 \o config.token
        ELSE url

-----------------------------------------------------------------------------
(* The environment: AbortSignals, the transport and the servers            *)

NoSignal == [kind |-> "none", id |-> 0]
\* the signal of the AbortController that invocation id created
AutoSignal(id) == [kind |-> "auto", id |-> id]
\* the signal of an AbortController owned by the caller
ManualSignal(k) == [kind |-> "manual", id |-> k]
ManualSignals == {ManualSignal(1)}

StatusText(status) ==
    CASE status = 200 -> "OK"
      [] status = 204 -> "No Content"
      [] status = 299 -> ""
      [] status = 300 -> "Multiple Choices"
      [] status = 404 -> "Not Found"
      [] status = 500 -> "Internal Server Error"
      [] OTHER -> ""

NoHeaders == <<>>
PagedHeaders ==
    ("Results-Matching" :> <<"4", "2">>) @@ ("Results-Skipped" :> <<"1", "0">>)
    @@ ("Link" :> <<"<", "u", ">">>) @@ ("Date" :> DateA)
MalformedHeaders ==
    ("Results-Matching" :> <<"a", "b", "c">>) @@ ("Results-Skipped" :> <<"-", "1">>)
    @@ ("Link" :> <<>>) @@ ("Date" :> <<"x">>)

Response(status, headers, body) ==
    [status |-> status, statusText |-> StatusText(status), headers |-> headers, body |-> body]

JsonArray == "[{\"id\":\"1\"}]"
JsonBoom == "{\"message\":\"boom\"}"
NotJson == "<html>"

\* the responses of the servers of Spec
Responses ==
    { Response(200, NoHeaders, JsonArray),
      Response(204, PagedHeaders, NotJson),
      Response(299, MalformedHeaders, NotJson),
      Response(300, NoHeaders, NotJson),
      Response(500, PagedHeaders, JsonBoom) }

\* the responses of the search server of SpecAutoCancel
SearchResponses ==
    { Response(200, PagedHeaders, JsonArray),
      Response(204, NoHeaders, "") }

\* new Date().getTime() at the moment a response is processed
Clock == {1007}

NoResponse == Response(0, NoHeaders, "")
NoError == [isError |-> FALSE, name |-> "", message |-> ""]
NoRet ==
    [id |-> 0, verb |-> "", type |-> "", useAbort |-> FALSE, signal |-> NoSignal,
     wasAborted |-> FALSE, cause |-> "", thrown |-> NoError, response |-> NoResponse,
     headers |-> <<>>, completion |-> Return([ok |-> TRUE])]

-----------------------------------------------------------------------------
(* State                                                                   *)

\* the configuration the container binds: a base URL, no token
LocalConf == [apiUrl |-> <<"h", "t", "t", "p", ":", "/", "/", "h">>, token |-> <<>>]
\* the endpoint the callers of Spec pass
Campaigns == <<"/", "c">>
Endpoints == {Campaigns}
NoRequest == [endpoint |-> <<>>, url |-> <<>>]
NoComposed == [path |-> <<>>, completion |-> [type |-> "none"]]

\* a constructed ApiFetch on which nothing has been called
Constructed ==
    /\ serverDateDiff = 0
    /\ controller = 0
    /\ calls = <<>>
    /\ aborted = {}
    /\ ret = NoRet
    /\ request = NoRequest
    /\ composed = NoComposed

\* a campaign, and the null of selectedCampaign$
Campaign(id, status) == [id |-> id, status |-> status]
Null == [null |-> TRUE]
NoTask ==
    [id |-> 0, op |-> "", arg |-> "", api |-> [kind |-> ""], completion |-> [type |-> "none"]]

\* a constructed OutboundService
OutboundConstructed ==
    /\ campaigns = <<>>
    /\ selectedCampaign = Null
    /\ loading = FALSE
    /\ tasks = <<>>
    /\ done = NoTask

\* a created StarterContainer: no module loaded, nothing bound
ContainerCreated ==
    /\ initialized = FALSE
    /\ loaded = <<>>
    /\ apiConf = Null
    /\ inits = <<>>

Init == config = LocalConf /\ Constructed /\ OutboundConstructed /\ ContainerCreated

InFlight(c) == c \in DOMAIN calls /\ calls[c].pc \in {"fetching", "decoding"}
IsAborted(sig) == sig \in aborted

\* the frame of a verb method that has called fetch once and awaits it
Frame(verb, type, useAbort, signal) ==
    [verb |-> verb, type |-> type, useAbort |-> useAbort, signal |-> signal,
     pc |-> "fetching", fetches |-> 1]

\* a prefix that drops the auto-cancel controller whatever the verb
Invoke_ResetsSlot(verb, type, endpoint, signal) ==
    /\ calls' = Append(calls, Frame(verb, type, FALSE, signal))
    /\ request' = [endpoint |-> endpoint, url |-> composeUrl(endpoint)]
    /\ controller' = 0
    /\ UNCHANGED <<serverDateDiff, aborted, ret, config, composed, outboundVars, containerVars>>

\* the synchronous prefix of a verb without auto-cancel: composeUrl, then fetch
\* is called with the caller's signal (or none) and the method awaits it
Invoke(verb, type, endpoint, signal) ==
    /\ calls' = Append(calls, Frame(verb, type, FALSE, signal))
    /\ request' = [endpoint |-> endpoint, url |-> composeUrl(endpoint)]
    /\ UNCHANGED <<serverDateDiff, controller, aborted, ret, config, composed, outboundVars, containerVars>>

\* a doGet whose auto-cancel aborts the signal of every call in flight
doGet_AbortsEveryCall(endpoint, manual, useAbort) ==
    IF useAbort
    THEN /\ aborted' = aborted \cup {calls[c].signal : c \in {d \in DOMAIN calls :
                                        InFlight(d) /\ calls[d].signal # NoSignal}}
         /\ controller' = Len(calls) + 1
         /\ calls' = Append(calls, [optionsSignal |-> manual] @@
                                    Frame("doGet", "json", TRUE, AutoSignal(Len(calls) + 1)))
         /\ request' = [endpoint |-> endpoint, url |-> composeUrl(endpoint)]
         /\ UNCHANGED <<serverDateDiff, ret, config, composed, outboundVars, containerVars>>
    ELSE Invoke("doGet", "json", endpoint, manual)

\* a doGet that keeps the caller's signal when one is given together with
\* useAbort
doGet_PrefersManualSignal(endpoint, manual, useAbort) ==
    IF useAbort
    THEN /\ aborted' = IF controller # 0 THEN aborted \cup {AutoSignal(controller)} ELSE aborted
         /\ controller' = Len(calls) + 1
         /\ calls' = Append(calls, [optionsSignal |-> manual] @@
                                    Frame("doGet", "json", TRUE,
                                          IF manual # NoSignal THEN manual
                                          ELSE AutoSignal(Len(calls) + 1)))
         /\ request' = [endpoint |-> endpoint, url |-> composeUrl(endpoint)]
         /\ UNCHANGED <<serverDateDiff, ret, config, composed, outboundVars, containerVars>>
    ELSE Invoke("doGet", "json", endpoint, manual)

\* doGet: options.signal is manual (NoSignal when not given), options.useAbort.
\* With useAbort the local signal is overwritten by the new controller's signal;
\* the frame keeps the caller's options.signal beside the signal fetch is given
doGet(endpoint, manual, useAbort) ==
    IF useAbort
    THEN /\ aborted' = IF controller # 0 THEN aborted \cup {AutoSignal(controller)} ELSE aborted
         /\ controller' = Len(calls) + 1
         /\ calls' = Append(calls, [optionsSignal |-> manual] @@
                                    Frame("doGet", "json", TRUE, AutoSignal(Len(calls) + 1)))
         /\ request' = [endpoint |-> endpoint, url |-> composeUrl(endpoint)]
         /\ UNCHANGED <<serverDateDiff, ret, config, composed, outboundVars, containerVars>>
    ELSE Invoke("doGet", "json", endpoint, manual)

doPost(endpoint, signal) == Invoke("doPost", "json", endpoint, signal)
doPut(endpoint) == Invoke("doPut", "json", endpoint, NoSignal)
doDelete(endpoint) == Invoke("doDelete", "json", endpoint, NoSignal)
doPatch(endpoint) == Invoke("doPatch", "json", endpoint, NoSignal)
doPostFile(endpoint) == Invoke("doPostFile", "json", endpoint, NoSignal)
doGetText(endpoint) == Invoke("doGetText", "text", endpoint, NoSignal)

\* a caller asks for a URL
ComposePath(path) ==
    /\ composed' = [path |-> path, completion |-> composePath(path)]
    /\ UNCHANGED <<serverDateDiff, controller, calls, aborted, ret, config, request,
                   outboundVars, containerVars>>

\* the caller calls abort() on its own AbortController
AbortManual(sig) ==
    /\ sig \notin aborted
    /\ aborted' = aborted \cup {sig}
    /\ UNCHANGED <<serverDateDiff, controller, calls, ret, config, request, composed,
                   outboundVars, containerVars>>

\* a doGet without its finally block: the controller stays in the field
Settle_KeepsSlot(c, cause, thrown, response, headers, completion) ==
    /\ calls' = [calls EXCEPT ![c] = [pc |-> "settled", fetches |-> calls[c].fetches]]
    /\ controller' = controller
    /\ ret' = [id |-> c, verb |-> calls[c].verb, type |-> calls[c].type,
               useAbort |-> calls[c].useAbort, signal |-> calls[c].signal,
               wasAborted |-> IsAborted(calls[c].signal), cause |-> cause,
               thrown |-> thrown, response |-> response, headers |-> headers,
               completion |-> completion]
    /\ UNCHANGED <<aborted, config, request, composed, outboundVars, containerVars>>

\* the method returns (or throws) completion to its caller; the finally block of
\* doGet runs on the way out
Settle(c, cause, thrown, response, headers, completion) ==
    /\ calls' = [calls EXCEPT ![c] = [pc |-> "settled", fetches |-> calls[c].fetches]]
    /\ controller' = IF calls[c].useAbort THEN 0 ELSE controller
    /\ ret' = [id |-> c, verb |-> calls[c].verb, type |-> calls[c].type,
               useAbort |-> calls[c].useAbort, signal |-> calls[c].signal,
               wasAborted |-> IsAborted(calls[c].signal), cause |-> cause,
               thrown |-> thrown, response |-> response, headers |-> headers,
               completion |-> completion]
    /\ UNCHANGED <<aborted, config, request, composed, outboundVars, containerVars>>

\* a catch block that calls fetch a second time after a transport failure
FetchRejected_Retry(c, error) ==
    /\ c \in DOMAIN calls /\ calls[c].pc = "fetching"
    /\ IF IsAborted(calls[c].signal) THEN error = AbortError ELSE error \in NetworkThrows
    /\ IF error # AbortError /\ calls[c].fetches = 1
       THEN /\ calls' = [calls EXCEPT ![c].fetches = 2]
            /\ UNCHANGED <<controller, aborted, ret, config, request, composed,
                           outboundVars, containerVars>>
       ELSE Settle(c, "fetchThrow", error, NoResponse, <<>>, TryCatch(Throw(error)))
    /\ UNCHANGED serverDateDiff

\* the fetch promise rejects: the signal was aborted (AbortError), or the
\* transport failed
FetchRejected(c, error) ==
    /\ c \in DOMAIN calls /\ calls[c].pc = "fetching"
    /\ IF IsAborted(calls[c].signal) THEN error = AbortError ELSE error \in NetworkThrows
    /\ Settle(c, "fetchThrow", error, NoResponse, <<>>, TryCatch(Throw(error)))
    /\ UNCHANGED serverDateDiff

\* the fetch promise resolves with a response: handleResponse runs up to its
\* await of the body, or to its return for status 204
FetchResolved(c, response, now) ==
    /\ c \in DOMAIN calls /\ calls[c].pc = "fetching"
    /\ ~IsAborted(calls[c].signal)
    /\ serverDateDiff' = DateDiffAfter(response, now, serverDateDiff)
    /\ LET headers == ParsedHeaders(response, now)
       IN  IF response.status = 204
           THEN Settle(c, "noContent", NoError, response, headers,
                       TryCatch(Return(NoContent(headers))))
           ELSE /\ calls' = [calls EXCEPT ![c] =
                                [pc |-> "decoding", response |-> response,
                                 headers |-> headers] @@ calls[c]]
                /\ UNCHANGED <<controller, aborted, ret, config, request, composed,
                               outboundVars, containerVars>>

\* response.json() / response.text() of a body that arrived whole
Decode(type, body) ==
    IF type = "json"
    THEN (IF JsonParse(body).ok THEN Return(JsonParse(body).value) ELSE Throw(SyntaxError))
    ELSE Return(body)

\* the body promise settles with the decoded body or with the decoder's error
BodyRead(c) ==
    /\ c \in DOMAIN calls /\ calls[c].pc = "decoding"
    /\ ~IsAborted(calls[c].signal)
    /\ LET f == calls[c]
           decoded == Decode(f.type, f.response.body)
       IN  Settle(c, IF decoded.type = "throw" THEN "decodeThrow" ELSE "decoded",
                  IF decoded.type = "throw" THEN decoded.value ELSE NoError,
                  f.response, f.headers,
                  TryCatch(Return(AfterDecode(f.response, f.type, f.headers, decoded))))
    /\ UNCHANGED serverDateDiff

\* the body promise rejects while the body is being read: the signal was
\* aborted (AbortError), or the connection broke
BodyRejected(c, error) ==
    /\ c \in DOMAIN calls /\ calls[c].pc = "decoding"
    /\ IF IsAborted(calls[c].signal) THEN error = AbortError ELSE error = FetchTypeError
    /\ LET f == calls[c]
       IN  Settle(c, "decodeThrow", error, f.response, f.headers,
                  TryCatch(Return(AfterDecode(f.response, f.type, f.headers, Throw(error)))))
    /\ UNCHANGED serverDateDiff

Next ==
    \/ /\ Len(calls) < MaxCalls
       /\ \E endpoint \in Endpoints :
             \* (doGet with options.signal: NextAutoCancel, NextMixed)
             \/ \E useAbort \in BOOLEAN : doGet(endpoint, NoSignal, useAbort)
             \/ \E signal \in ManualSignals \cup {NoSignal} : doPost(endpoint, signal)
             \/ doPut(endpoint)
             \/ doDelete(endpoint)
             \/ doPatch(endpoint)
             \/ doPostFile(endpoint)
             \/ doGetText(endpoint)
    \/ \E sig \in ManualSignals : AbortManual(sig)
    \/ \E c \in DOMAIN calls, error \in NetworkThrows \cup {AbortError} : FetchRejected(c, error)
    \/ \E c \in DOMAIN calls, response \in Responses, now \in Clock :
            FetchResolved(c, response, now)
    \/ \E c \in DOMAIN calls : BodyRead(c)
    \/ \E c \in DOMAIN calls, error \in {FetchTypeError, AbortError} : BodyRejected(c, error)

Spec == Init /\ [][Next]_vars

\* the adapter used for GETs only (a search box): more invocations, fewer
\* kinds of response
NextAutoCancel ==
    \/ /\ Len(calls) < MaxGets
       /\ \E endpoint \in Endpoints, manual \in ManualSignals \cup {NoSignal},
             useAbort \in BOOLEAN :
                doGet(endpoint, manual, useAbort)
    \/ \E sig \in ManualSignals : AbortManual(sig)
    \/ \E c \in DOMAIN calls, error \in {FetchTypeError, AbortError} : FetchRejected(c, error)
    \/ \E c \in DOMAIN calls, response \in SearchResponses, now \in Clock :
            FetchResolved(c, response, now)
    \/ \E c \in DOMAIN calls : BodyRead(c)
    \/ \E c \in DOMAIN calls, error \in {FetchTypeError, AbortError} : BodyRejected(c, error)

SpecAutoCancel == Init /\ [][NextAutoCancel]_vars

\* one adapter shared by a search box (auto-cancel GETs) and by callers of
\* the other verbs, some of them with their own AbortController
NextMixed ==
    \/ /\ Len(calls) < MaxMixed
       /\ \E endpoint \in Endpoints :
             \/ \E manual \in ManualSignals \cup {NoSignal}, useAbort \in BOOLEAN :
                   doGet(endpoint, manual, useAbort)
             \/ \E signal \in ManualSignals \cup {NoSignal} : doPost(endpoint, signal)
             \/ doPut(endpoint)
             \/ doDelete(endpoint)
             \/ doPatch(endpoint)
             \/ doPostFile(endpoint)
             \/ doGetText(endpoint)
    \/ \E sig \in ManualSignals : AbortManual(sig)
    \/ \E c \in DOMAIN calls, error \in {FetchTypeError, AbortError} : FetchRejected(c, error)
    \/ \E c \in DOMAIN calls, response \in SearchResponses, now \in Clock :
            FetchResolved(c, response, now)
    \/ \E c \in DOMAIN calls : BodyRead(c)
    \/ \E c \in DOMAIN calls, error \in {FetchTypeError, AbortError} : BodyRejected(c, error)

SpecMixed == Init /\ [][NextMixed]_vars

\* the shared adapter of NextMixed whose callers also ask for URLs
NextFrame ==
    \/ NextMixed
    \/ \E path \in Endpoints : ComposePath(path)

SpecFrame == Init /\ [][NextFrame]_vars

\* a server that sends arbitrary pagination headers: every string over
\* HeaderChars up to MaxHeaderLen, or no header (Headers.get returns null)
HeaderChars == {"0", "7", "a", "-", "."}
HeaderValues == UNION {[1..n -> HeaderChars] : n \in 0..MaxHeaderLen}
HeaderChoices ==
    {[present |-> FALSE, value |-> <<>>]} \cup {[present |-> TRUE, value |-> v] : v \in HeaderValues}
OptionalHeader(name, choice) == IF choice.present THEN name :> choice.value ELSE <<>>
\* the two headers vary one at a time, or carry the same value
HeaderPairs ==
    LET absent == [present |-> FALSE, value |-> <<>>]
    IN  {<<m, absent>> : m \in HeaderChoices} \cup {<<absent, k>> : k \in HeaderChoices}
        \cup {<<m, m>> : m \in HeaderChoices}
HeaderResponses ==
    { Response(status, OptionalHeader("Results-Matching", pair[1])
                       @@ OptionalHeader("Results-Skipped", pair[2]), JsonArray) :
        status \in {200, 204}, pair \in HeaderPairs }

\* one GET answered by that server
NextHeaders ==
    \/ /\ calls = <<>>
       /\ doGet(Campaigns, NoSignal, FALSE)
    \/ \E c \in DOMAIN calls, response \in HeaderResponses, now \in Clock :
            FetchResolved(c, response, now)
    \/ \E c \in DOMAIN calls : BodyRead(c)

SpecHeaders == Init /\ [][NextHeaders]_vars

\* ApiFetch.getServerDateDiff
getServerDateDiff == serverDateDiff

\* servers whose Date header is usable, malformed, empty or missing, seen by a
\* client whose clock advances
SkewClock == {1007, 1050}
DateHeaders == {NoHeaders} \cup {"Date" :> d : d \in {DateA, DateB, <<"x">>, <<>>}}
DatedResponses == {Response(status, h, JsonArray) : status \in {200, 204}, h \in DateHeaders}

\* GETs answered by those servers, or not answered at all
NextClock ==
    \/ /\ Len(calls) < MaxSkewCalls
       /\ doGet(Campaigns, NoSignal, FALSE)
    \/ \E c \in DOMAIN calls : FetchRejected(c, FetchTypeError)
    \/ \E c \in DOMAIN calls, response \in DatedResponses, now \in SkewClock :
            FetchResolved(c, response, now)
    \/ \E c \in DOMAIN calls : BodyRead(c)

SpecClock == Init /\ [][NextClock]_vars

\* the configurations and the paths of SpecUrl: base URLs with and without a
\* path and the empty default of <scx-root api-url>, with and without a token;
\* relative paths with and without leading slash, query and fragment, absolute
\* URLs, and a path that only resembles one
Configs ==
    [apiUrl : {LocalConf.apiUrl, LocalConf.apiUrl \o <<"/", "v">>, <<>>},
     token : {<<>>, <<"t">>}]
UrlPaths ==
    { <<"/", "r">>,
      <<"r">>,
      <<>>,
      <<"/", "r", "?", "a", "=", "b">>,
      <<"r", "?", "a", "=", "b", "&", "c", "=", "d">>,
      <<"/", "r", "?", "a">>,
      <<"/", "r", "#", "f">>,
      <<"/", "r", "?", "a", "=", "b", "#", "f">>,
      <<"h", "t", "t", "p", ":", "/", "/", "x", "/", "r">>,
      <<"h", "t", "t", "p", "s", ":", "/", "/", "x", "/", "r", "?", "a", "=", "b">>,
      <<"h", "t", "t", "p", "s", ":", "/", "/", "x">>,
      <<"h", "t", "t", "p", ":", "/", "x">> }

InitUrl == config \in Configs /\ Constructed /\ OutboundConstructed /\ ContainerCreated

\* callers that compose URLs and call the verbs with those paths
NextUrl ==
    \/ \E path \in UrlPaths : ComposePath(path)
    \/ /\ Len(calls) < MaxUrlCalls
       /\ \E endpoint \in UrlPaths :
             \/ \E useAbort \in BOOLEAN : doGet(endpoint, NoSignal, useAbort)
             \/ doPost(endpoint, NoSignal)
             \/ doPut(endpoint)
             \/ doDelete(endpoint)
             \/ doPatch(endpoint)
             \/ doPostFile(endpoint)
             \/ doGetText(endpoint)
    \/ \E c \in DOMAIN calls : FetchRejected(c, FetchTypeError)

SpecUrl == InitUrl /\ [][NextUrl]_vars

-----------------------------------------------------------------------------
(* OutboundService                                                         *)

CampaignA == Campaign("1", "active")
CampaignB == Campaign("2", "paused")
\* the lists a server sends; the last one has two entries with the same id
CampaignLists ==
    {<<>>, <<CampaignA>>, <<CampaignA, CampaignB>>,
     <<CampaignA, CampaignB, Campaign("1", "completed")>>}
NetworkError == [isError |-> TRUE, name |-> "Error", message |-> "Network error"]

\* what the injected IApiFetch.doGet('/campaigns') can resolve with: a Success
\* with a list (an empty array is truthy), a Success without data, a Failure
\* without data and a Failure for an HTTP error status, which carries data
CampaignsOutcomes ==
    {Spread([ok |-> TRUE, status |-> 200, data |-> list], NoHeaders) : list \in CampaignLists}
    \cup { NoContent(NoHeaders),
           handleError(FetchTypeError).value,
           [ok |-> FALSE, status |-> 500, data |-> <<CampaignB>>,
            error |-> [message |-> <<"Request failed: ", "500", " ", StatusText(500)>>,
                       status |-> 500, statusText |-> StatusText(500)]] }

\* `response.ok && response.data`
OkWithData(response) == response.ok /\ "data" \in DOMAIN response

\* loadCampaigns up to its await of apiFetch.doGet
loadCampaigns ==
    /\ loading' = TRUE
    /\ tasks' = Append(tasks, [op |-> "loadCampaigns", pc |-> "awaiting"])
    /\ UNCHANGED <<campaigns, selectedCampaign, done, apiVars, containerVars>>

\* the end of loadCampaigns: the finally block, then the promise resolves
LoadSettle(t, api) ==
    /\ loading' = FALSE
    /\ tasks' = [tasks EXCEPT ![t].pc = "settled"]
    /\ done' = [id |-> t, op |-> "loadCampaigns", arg |-> "", api |-> api,
                completion |-> Return("undefined")]
    /\ UNCHANGED <<selectedCampaign, apiVars, containerVars>>

\* a loadCampaigns that keeps the list it has when the API answers with a failure
LoadResolved_KeepsListOnFailure(t, response) ==
    /\ t \in DOMAIN tasks /\ tasks[t].op = "loadCampaigns" /\ tasks[t].pc = "awaiting"
    /\ campaigns' = IF OkWithData(response) THEN response.data ELSE campaigns
    /\ LoadSettle(t, [kind |-> "resolved", value |-> response])

\* the promise of doGet resolves with an outcome: the try block of loadCampaigns
LoadResolved(t, response) ==
    /\ t \in DOMAIN tasks /\ tasks[t].op = "loadCampaigns" /\ tasks[t].pc = "awaiting"
    /\ campaigns' = IF OkWithData(response) THEN response.data ELSE <<>>
    /\ LoadSettle(t, [kind |-> "resolved", value |-> response])

\* the promise of doGet rejects: the catch block of loadCampaigns
LoadRejected(t, error) ==
    /\ t \in DOMAIN tasks /\ tasks[t].op = "loadCampaigns" /\ tasks[t].pc = "awaiting"
    /\ campaigns' = <<>>
    /\ LoadSettle(t, [kind |-> "rejected", value |-> error])

NextOutbound ==
    \/ /\ Len(tasks) < MaxTasks
       /\ loadCampaigns
    \/ \E t \in DOMAIN tasks, response \in CampaignsOutcomes : LoadResolved(t, response)
    \/ \E t \in DOMAIN tasks : LoadRejected(t, NetworkError)

SpecOutbound == Init /\ [][NextOutbound]_vars

\* the ids a caller passes; no campaign has the last one
CampaignIds == {"1", "2", "3"}

\* what the injected IApiFetch.doPost('/campaigns/<id>/start' or '/pause') can
\* resolve with: a Success with the updated campaign, a Success without data, a
\* Failure without data and a Failure for an HTTP error status, which carries data
UpdateOutcomes ==
    {Spread([ok |-> TRUE, status |-> 200, data |-> d], NoHeaders) :
        d \in {Campaign("1", "paused"), Campaign("2", "active")}}
    \cup { NoContent(NoHeaders),
           handleError(FetchTypeError).value,
           [ok |-> FALSE, status |-> 500, data |-> Campaign("1", "completed"),
            error |-> [message |-> <<"Request failed: ", "500", " ", StatusText(500)>>,
                       status |-> 500, statusText |-> StatusText(500)]] }

\* Array.prototype.find((c) => c.id === id): the first match, or undefined
Find(list, id) ==
    IF \E i \in DOMAIN list : list[i].id = id
    THEN [found |-> TRUE,
          value |-> list[CHOOSE i \in DOMAIN list :
                           list[i].id = id /\ \A j \in 1..(i - 1) : list[j].id # id]]
    ELSE [found |-> FALSE]

\* a selectCampaign that keeps the selection when the id is not found
selectCampaign_KeepsSelection(id) ==
    /\ selectedCampaign' = IF Find(campaigns, id).found THEN Find(campaigns, id).value
                           ELSE selectedCampaign
    /\ done' = [id |-> 0, op |-> "selectCampaign", arg |-> id, api |-> [kind |-> ""],
                completion |-> Return("undefined")]
    /\ UNCHANGED <<campaigns, loading, tasks, apiVars, containerVars>>

\* OutboundService.selectCampaign (synchronous)
selectCampaign(id) ==
    /\ selectedCampaign' = IF Find(campaigns, id).found THEN Find(campaigns, id).value
                           ELSE Null
    /\ done' = [id |-> 0, op |-> "selectCampaign", arg |-> id, api |-> [kind |-> ""],
                completion |-> Return("undefined")]
    /\ UNCHANGED <<campaigns, loading, tasks, apiVars, containerVars>>

\* startCampaign / pauseCampaign up to the await of apiFetch.doPost
startCampaign(id) ==
    /\ tasks' = Append(tasks, [op |-> "startCampaign", pc |-> "awaiting", arg |-> id])
    /\ UNCHANGED <<campaigns, selectedCampaign, loading, done, apiVars, containerVars>>
pauseCampaign(id) ==
    /\ tasks' = Append(tasks, [op |-> "pauseCampaign", pc |-> "awaiting", arg |-> id])
    /\ UNCHANGED <<campaigns, selectedCampaign, loading, done, apiVars, containerVars>>

\* a map that replaces the first entry with the id only
ReplaceById_FirstOnly(list, id, updatedCampaign) ==
    [i \in DOMAIN list |->
        IF list[i].id = id /\ \A j \in 1..(i - 1) : list[j].id # id
        THEN updatedCampaign ELSE list[i]]

\* campaigns.map((c) => (c.id === id ? updatedCampaign : c))
ReplaceById(list, id, updatedCampaign) ==
    [i \in DOMAIN list |-> IF list[i].id = id THEN updatedCampaign ELSE list[i]]

\* a startCampaign / pauseCampaign that drops the selection when the API fails
CampaignResolved_ClearsSelectionOnFailure(t, response) ==
    /\ t \in DOMAIN tasks /\ tasks[t].op \in {"startCampaign", "pauseCampaign"}
    /\ tasks[t].pc = "awaiting"
    /\ IF OkWithData(response)
       THEN /\ campaigns' = ReplaceById(campaigns, tasks[t].arg, response.data)
            /\ selectedCampaign' =
                 IF selectedCampaign # Null /\ selectedCampaign.id = tasks[t].arg
                 THEN response.data ELSE selectedCampaign
       ELSE /\ selectedCampaign' = Null
            /\ UNCHANGED campaigns
    /\ tasks' = [tasks EXCEPT ![t].pc = "settled"]
    /\ done' = [id |-> t, op |-> tasks[t].op, arg |-> tasks[t].arg,
                api |-> [kind |-> "resolved", value |-> response],
                completion |-> Return(OkWithData(response))]
    /\ UNCHANGED <<loading, apiVars, containerVars>>

\* the promise of doPost resolves with an outcome: the rest of startCampaign /
\* pauseCampaign
CampaignResolved(t, response) ==
    /\ t \in DOMAIN tasks /\ tasks[t].op \in {"startCampaign", "pauseCampaign"}
    /\ tasks[t].pc = "awaiting"
    /\ IF OkWithData(response)
       THEN /\ campaigns' = ReplaceById(campaigns, tasks[t].arg, response.data)
            /\ selectedCampaign' =
                 IF selectedCampaign # Null /\ selectedCampaign.id = tasks[t].arg
                 THEN response.data ELSE selectedCampaign
       ELSE UNCHANGED <<campaigns, selectedCampaign>>
    /\ tasks' = [tasks EXCEPT ![t].pc = "settled"]
    /\ done' = [id |-> t, op |-> tasks[t].op, arg |-> tasks[t].arg,
                api |-> [kind |-> "resolved", value |-> response],
                completion |-> Return(OkWithData(response))]
    /\ UNCHANGED <<loading, apiVars, containerVars>>

\* the promise of doPost rejects: startCampaign / pauseCampaign have no catch,
\* the promise they returned rejects with the same error
CampaignRejected(t, error) ==
    /\ t \in DOMAIN tasks /\ tasks[t].op \in {"startCampaign", "pauseCampaign"}
    /\ tasks[t].pc = "awaiting"
    /\ tasks' = [tasks EXCEPT ![t].pc = "settled"]
    /\ done' = [id |-> t, op |-> tasks[t].op, arg |-> tasks[t].arg,
                api |-> [kind |-> "rejected", value |-> error],
                completion |-> Throw(error)]
    /\ UNCHANGED <<campaigns, selectedCampaign, loading, apiVars, containerVars>>

\* a component that loads, selects, starts and pauses campaigns
NextCampaigns ==
    \/ /\ Len(tasks) < MaxOps
       /\ \/ loadCampaigns
          \/ \E id \in CampaignIds : startCampaign(id)
          \/ \E id \in CampaignIds : pauseCampaign(id)
    \/ \E id \in CampaignIds : selectCampaign(id)
    \/ \E t \in DOMAIN tasks, response \in CampaignsOutcomes : LoadResolved(t, response)
    \/ \E t \in DOMAIN tasks : LoadRejected(t, NetworkError)
    \/ \E t \in DOMAIN tasks, response \in UpdateOutcomes : CampaignResolved(t, response)
    \/ \E t \in DOMAIN tasks : CampaignRejected(t, NetworkError)

SpecCampaigns == Init /\ [][NextCampaigns]_vars

-----------------------------------------------------------------------------
(* StarterContainer                                                        *)

\* the values of <scx-root api-url> handed to init
ApiBaseUrls == {LocalConf.apiUrl, LocalConf.apiUrl \o <<"/", "v">>, <<>>}

\* createApiModule(config): the constant value its module binds to ApiConf
createApiModule(conf) == conf

\* an init without the initialized guard
init_Unguarded(options) ==
    /\ loaded' = loaded \o <<"loggerModule", "apiModule", "outboundModule">>
    /\ apiConf' = createApiModule([apiUrl |-> options.apiBaseUrl])
    /\ initialized' = TRUE
    /\ inits' = Append(inits, [options |-> options, awaited |-> FALSE])
    /\ UNCHANGED <<apiVars, outboundVars>>

\* StarterContainer.init: the body has no await, so a call runs to its end before
\* any other call starts; the caller holds the returned promise
init(options) ==
    /\ IF initialized
       THEN UNCHANGED <<initialized, loaded, apiConf>>
       ELSE /\ loaded' = loaded \o <<"loggerModule", "apiModule", "outboundModule">>
            /\ apiConf' = createApiModule([apiUrl |-> options.apiBaseUrl])
            /\ initialized' = TRUE
    /\ inits' = Append(inits, [options |-> options, awaited |-> FALSE])
    /\ UNCHANGED <<apiVars, outboundVars>>

\* the caller's `await starter.init(...)` resumes
InitAwaited(i) ==
    /\ i \in DOMAIN inits /\ ~inits[i].awaited
    /\ inits' = [inits EXCEPT ![i].awaited = TRUE]
    /\ UNCHANGED <<initialized, loaded, apiConf, apiVars, outboundVars>>

NextContainer ==
    \/ /\ Len(inits) < MaxInits
       /\ \E apiBaseUrl \in ApiBaseUrls : init([apiBaseUrl |-> apiBaseUrl])
    \/ \E i \in DOMAIN inits : InitAwaited(i)

SpecContainer == Init /\ [][NextContainer]_vars

-----------------------------------------------------------------------------
(* Properties                                                              *)

Settled == ret.id # 0
Returned == Settled /\ ret.completion.type = "return"
\* the outcome handed to the caller of the most recently settled invocation
Outcome == ret.completion.value
MetaKeys == {"total", "skipped", "link", "serverDateDiff"}
\* the outcome carries exactly the metadata fields that parseHeaders produced
\* for the response, and none when the response has no header
MetadataAttached ==
    /\ \A k \in MetaKeys :
          /\ k \in DOMAIN Outcome <=> k \in DOMAIN ret.headers
          /\ k \in DOMAIN Outcome => Outcome[k] = ret.headers[k]
    /\ ret.response.headers = NoHeaders => DOMAIN Outcome \cap MetaKeys = {}
In2xx(status) == status >= 200 /\ status <= 299
\* what the decoder handed back for the body of the settled invocation
DecodedBody == Decode(ret.type, ret.response.body).value
Contains(message, part) == \E i \in DOMAIN message : message[i] = part

\* C1: every verb operation hands its caller an outcome value and never throws or
\* rejects, whatever the transport did (threw, was cancelled, answered with any
\* status, failed to deliver a decodable body).
C1_NeverThrows ==
    Settled => /\ ret.completion.type = "return"
               /\ "ok" \in DOMAIN ret.completion.value

\* C1 witness: a verb whose fetch rejected with a value that is not an Error object
C1_Witness ==
    /\ Settled /\ ret.verb = "doPostFile"
    /\ ret.cause = "fetchThrow" /\ ret.thrown = ThrownString
    /\ ret.completion.type = "return"

\* C2: every outcome is exactly one of Success and Failure: ok is true iff no error
\* object is present, and ok is false iff an error object with a message is present.
C2_SuccessXorFailure ==
    Returned => /\ Outcome.ok \in BOOLEAN
                /\ Outcome.ok <=> "error" \notin DOMAIN Outcome
                /\ ~Outcome.ok <=> ("error" \in DOMAIN Outcome
                                    /\ "message" \in DOMAIN Outcome.error)

\* C2 witness: a Failure built by handleResponse for an HTTP error status
C2_Witness ==
    /\ Returned /\ ret.cause = "decoded" /\ ret.response.status = 500
    /\ ~Outcome.ok /\ "error" \in DOMAIN Outcome

\* C3: a response with status in [200,299] other than 204 whose body decodes yields
\* Success with that status, the decoded body and the metadata of the headers.
C3_SuccessWithBody ==
    (Returned /\ ret.cause = "decoded" /\ In2xx(ret.response.status)
        /\ ret.response.status # 204)
    => /\ Outcome.ok = TRUE
       /\ Outcome.status = ret.response.status
       /\ "data" \in DOMAIN Outcome /\ Outcome.data = DecodedBody
       /\ "error" \notin DOMAIN Outcome
       /\ MetadataAttached

\* C3 witness: status 299, the upper end of the range, decoded as text
C3_Witness ==
    /\ Returned /\ ret.cause = "decoded" /\ ret.verb = "doGetText"
    /\ ret.response.status = 299 /\ Outcome.ok /\ Outcome.data = NotJson

C5_NoContent ==
    /\ \A c \in DOMAIN calls : calls[c].pc = "decoding" => calls[c].response.status # 204
    /\ (Settled /\ ret.response.status = 204)
       => /\ ret.cause = "noContent"
          /\ ret.completion.type = "return"
          /\ Outcome.ok = TRUE
          /\ Outcome.status = 204
          /\ "data" \notin DOMAIN Outcome
          /\ "error" \notin DOMAIN Outcome
          /\ MetadataAttached

\* C5 witness: a 204 that carries an undecodable body and pagination headers
C5_Witness ==
    /\ Returned /\ ret.verb = "doDelete"
    /\ ret.response = Response(204, PagedHeaders, NotJson)
    /\ Outcome.ok /\ Outcome.total = 42 /\ "link" \in DOMAIN Outcome

C8_CancelledIsAborted ==
    (Settled /\ ret.wasAborted)
    => /\ ret.completion.type = "return"
       /\ Outcome.ok = FALSE
       /\ Outcome.error.message = <<"Request aborted">>
       /\ "status" \notin DOMAIN Outcome

\* the auto-cancel GETs that are in flight and whose signal is not aborted
LiveAutoGets ==
    {c \in DOMAIN calls : InFlight(c) /\ calls[c].useAbort /\ ~IsAborted(calls[c].signal)}

\* C9 (as claimed): at most one auto-cancel GET of the adapter is in flight
\* uncancelled at any time.
C9_AtMostOneLiveAutoGet == Cardinality(LiveAutoGets) <= 1

\* C10 (as claimed): a settling auto-cancel GET clears the slot only when the slot
\* still refers to it; a slot that refers to a newer call is kept.
C10_SlotKeptForNewer ==
    [][\A c \in DOMAIN calls :
          (InFlight(c) /\ calls[c].useAbort /\ calls'[c].pc = "settled")
          => controller' = IF controller = c THEN 0 ELSE controller]_vars

\* the step is the synchronous prefix of a doGet with options.useAbort
IssuesAutoGet ==
    /\ Len(calls') = Len(calls) + 1
    /\ calls'[Len(calls')].useAbort

\* C11: issuing an auto-cancel GET cancels nothing but a previous auto-cancel GET:
\* every caller-owned token keeps its state, and every call in flight that is not
\* an auto-cancel GET (a call with a manual token, a plain GET, any other verb)
\* keeps its frame and the state of its signal.
C11_AutoGetSparesOthers ==
    [][IssuesAutoGet
       => /\ \A sig \in ManualSignals : sig \in aborted' <=> sig \in aborted
          /\ \A c \in DOMAIN calls :
                (InFlight(c) /\ ~calls[c].useAbort)
                => /\ calls'[c] = calls[c]
                   /\ IsAborted(calls[c].signal)' <=> IsAborted(calls[c].signal)]_vars

\* C11 witness: an auto-cancel GET has been issued after a doPost with the caller's
\* own token, and both are in flight with the token not aborted
C11_Witness ==
    /\ Len(calls) = 2
    /\ calls[1].pc = "fetching" /\ calls[1].verb = "doPost"
    /\ calls[1].signal = ManualSignal(1) /\ ~IsAborted(ManualSignal(1))
    /\ calls[2].pc = "fetching" /\ calls[2].useAbort

\* the Failure of a cancelled call: "Request aborted", no status, no body
CancellationFailure ==
    /\ ret.completion.type = "return"
    /\ Outcome.ok = FALSE
    /\ Outcome.error.message = <<"Request aborted">>
    /\ DOMAIN Outcome \cap {"status", "data"} = {}

\* C12 (as claimed): of auto-cancel GETs issued in quick succession, one that was
\* superseded before it settled resolves as the cancellation Failure, and one that
\* nothing aborted resolves according to the response the server sent.
C12_FirstCancelledSecondNormal ==
    (Settled /\ ret.useAbort)
    => IF ret.wasAborted
       THEN CancellationFailure
       ELSE (ret.cause \in {"decoded", "noContent"})
            => /\ ret.completion.type = "return"
               /\ Outcome.ok = ResponseOk(ret.response)
               /\ Outcome.status = ret.response.status

\* a well-formed non-negative integer: one or more decimal digits, nothing else
WellFormedNat(s) == s # <<>> /\ \A i \in DOMAIN s : IsDigit(s[i])

\* C13 (as claimed): the outcome has total (resp. skipped) exactly when the
\* Results-Matching (resp. Results-Skipped) header is present and is a well-formed
\* non-negative integer, and the field then has the header's value.
C13_CountIffWellFormed ==
    (Returned /\ ret.cause \in {"decoded", "decodeThrow", "noContent"})
    => \A f \in {<<"Results-Matching", "total">>, <<"Results-Skipped", "skipped">>} :
          LET h == ret.response.headers
              wellFormed == f[1] \in DOMAIN h /\ WellFormedNat(h[f[1]])
          IN  /\ f[2] \in DOMAIN Outcome <=> wellFormed
              /\ wellFormed => Outcome[f[2]] = DigitsPrefix(h[f[1]], 0)

\* the response carries a Date header that new Date() can parse
ParseableDate(response) ==
    "Date" \in DOMAIN response.headers /\ response.headers["Date"] \in {DateA, DateB}
\* the skews a client can compute from the response's Date header
Skews(response) ==
    {now - DateGetTime(response.headers["Date"]).val : now \in SkewClock}

\* C14: getServerDateDiff is 0 until a response with a parseable Date header is
\* processed and from then on the skew computed from the latest such response: the
\* step that processes a response sets it to that response's skew if its Date
\* header parses and leaves it alone otherwise, every other step (a transport
\* failure among them) leaves it alone, and an outcome has the skew field exactly
\* when it comes from a response with a parseable Date header.
C14_SkewOfLatestDatedResponse ==
    /\ getServerDateDiff = 0
    /\ [][/\ \A c \in DOMAIN calls :
               IF calls[c].pc = "fetching" /\ calls'[c].pc = "decoding"
               THEN IF ParseableDate(calls'[c].response)
                    THEN /\ getServerDateDiff' \in Skews(calls'[c].response)
                         /\ getServerDateDiff' = calls'[c].headers.serverDateDiff
                    ELSE getServerDateDiff' = getServerDateDiff
               ELSE IF calls[c].pc = "fetching" /\ ret'.id = c /\ ret'.cause = "noContent"
               THEN IF ParseableDate(ret'.response)
                    THEN /\ getServerDateDiff' \in Skews(ret'.response)
                         /\ getServerDateDiff' = ret'.completion.value.serverDateDiff
                    ELSE getServerDateDiff' = getServerDateDiff
               ELSE calls'[c] # calls[c] => getServerDateDiff' = getServerDateDiff
          /\ Len(calls') # Len(calls) => getServerDateDiff' = getServerDateDiff
          /\ ret' # ret
             => ("serverDateDiff" \in DOMAIN ret'.completion.value
                 <=> (ret'.cause # "fetchThrow" /\ ParseableDate(ret'.response)))]_vars

\* C14 witness: the cache holds the skew of an earlier response while the latest
\* outcome, from a response with a malformed Date header, has no skew field
C14_Witness ==
    /\ Returned /\ ret.id = 2 /\ ret.cause = "decoded"
    /\ ret.response.headers = ("Date" :> <<"x">>)
    /\ "serverDateDiff" \notin DOMAIN Outcome
    /\ getServerDateDiff = 1050 - 1040

\* composePath has been called
Composed == composed.completion.type # "none"
ComposedReturns(url) == composed.completion.type = "return" /\ composed.completion.value = url
ComposedThrows(error) == composed.completion.type = "throw" /\ composed.completion.value = error
\* the string composePath builds before it looks at the token
Unauthenticated(path) == IF IsAbsolute(path) THEN path ELSE config.apiUrl \o path
\* "?name=value" for a string without query string, "&name=value" for one with
QuerySuffix(str, name, value) ==
    <<IF Includes(str, "?") THEN "&" ELSE "?">> \o name \o <<"=">> \o value

Alnum == {"a", "b", "c", "d", "r", "v", "x", "h", "t"}
PlainPair(piece) ==
    LET eq == FirstOf(piece, {"="})
    IN  /\ eq <= Len(piece)
        /\ \A i \in DOMAIN piece : i # eq => piece[i] \in Alnum
HasHttpScheme(str) ==
    StartsWith(str, HttpScheme \o <<":">>) \/ StartsWith(str, HttpsScheme \o <<":">>)
NormalizedUrl(str) ==
    /\ IsAbsolute(str)
    /\ LET rest == From(str, FirstOf(str, {"/"}) + 2)
           slash == FirstOf(rest, {"/", "?", "#"})
           mark == FirstOf(rest, {"?"})
       IN  /\ slash > 1 /\ slash <= Len(rest) /\ rest[slash] = "/"
           /\ ~Includes(rest, "#")
           /\ mark <= Len(rest)
              => LET pieces == Split(From(rest, mark + 1), "&")
                 IN  \A i \in DOMAIN pieces : PlainPair(pieces[i])

Requested == calls # <<>>
\* the static token of the verbs: "?token=t" or "&token=t", nothing without token
TokenSuffix(path) ==
    IF config.token = <<>> THEN <<>>
    ELSE QuerySuffix(path, <<"t", "o", "k", "e", "n">>, config.token)

\* C16 (as claimed): a verb called with a path matching ^(http|https):// issues its
\* request to that path, with only the token parameter appended; the base URL is
\* not prepended.
C16_AbsolutePassThrough ==
    (Requested /\ IsAbsolute(request.endpoint))
    => request.url = request.endpoint \o TokenSuffix(request.endpoint)

\* C17 (as claimed): a verb called with a relative path p issues its request to
\* base + p, nothing inserted between them, followed by the token parameter.
C17_RawConcatenation ==
    (Requested /\ ~IsAbsolute(request.endpoint))
    => request.url = config.apiUrl \o request.endpoint \o TokenSuffix(request.endpoint)

\* C17 (amended): a verb called with a relative path p issues its request to
\* base + p when p begins with "/" and to base + "/" + p when it does not (the
\* empty path included), followed, when a token t is configured, by ?token=t if
\* p contains no "?" and by &token=t if it does.
C17_SlashEnsured ==
    (Requested /\ ~IsAbsolute(request.endpoint))
    => LET p == request.endpoint
           slash == IF p # <<>> /\ p[1] = "/" THEN <<>> ELSE <<"/">>
       IN  request.url = config.apiUrl \o slash \o p \o TokenSuffix(p)

\* C17 witness: a relative path without leading slash and with a query string,
\* requested with a token under a base URL that has a path
C17_Witness ==
    /\ Requested
    /\ config = [apiUrl |-> <<"h", "t", "t", "p", ":", "/", "/", "h", "/", "v">>, token |-> <<"t">>]
    /\ request.endpoint = <<"r", "?", "a", "=", "b", "&", "c", "=", "d">>
    /\ request.url = config.apiUrl \o <<"/">> \o request.endpoint
                      \o <<"&", "t", "o", "k", "e", "n", "=", "t">>

C20_LoadCampaignsOutcome ==
    [][\A t \in DOMAIN tasks :
          (tasks[t].op = "loadCampaigns" /\ tasks[t].pc = "awaiting"
              /\ tasks'[t].pc = "settled")
          => /\ done'.id = t
             /\ done'.completion.type = "return"
             /\ loading' = FALSE
             /\ campaigns' =
                  IF done'.api.kind = "resolved" /\ done'.api.value.ok = TRUE
                     /\ "data" \in DOMAIN done'.api.value
                  THEN done'.api.value.data
                  ELSE <<>>]_vars

\* C20 witness: a second loadCampaigns settled on a rejected API call, and the list
\* is empty and loading$ false
C20_Witness ==
    /\ done.op = "loadCampaigns" /\ done.id = 2 /\ done.api.kind = "rejected"
    /\ done.completion.type = "return"
    /\ campaigns = <<>> /\ loading = FALSE

\* the step on which the startCampaign or pauseCampaign call t settles after the
\* API call resolved
UpdateSettles(t) ==
    /\ tasks[t].op \in {"startCampaign", "pauseCampaign"}
    /\ tasks[t].pc = "awaiting" /\ tasks'[t].pc = "settled"
    /\ done'.api.kind = "resolved"
\* the outcome is ok and has data
OkData(outcome) == outcome.ok = TRUE /\ "data" \in DOMAIN outcome

\* C21: when the API outcome of startCampaign(id) or pauseCampaign(id) is a failure
\* (with or without data) or ok without data, the call returns false and
\* campaigns$, selectedCampaign$ and loading$ are left as they were.
C21_FailedUpdateChangesNothing ==
    [][\A t \in DOMAIN tasks :
          (UpdateSettles(t) /\ ~OkData(done'.api.value))
          => /\ done'.completion.type = "return" /\ done'.completion.value = FALSE
             /\ campaigns' = campaigns
             /\ selectedCampaign' = selectedCampaign
             /\ loading' = loading]_vars

\* C21 witness: pauseCampaign settled on an HTTP error that carries a payload, with
\* a campaign selected
C21_Witness ==
    /\ done.op = "pauseCampaign" /\ done.api.kind = "resolved"
    /\ ~done.api.value.ok /\ "data" \in DOMAIN done.api.value
    /\ done.completion.type = "return" /\ done.completion.value = FALSE
    /\ campaigns = <<CampaignA, CampaignB>> /\ selectedCampaign = CampaignA

\* C22: when the API outcome of startCampaign(id) or pauseCampaign(id) is ok with
\* data d, the call returns true, campaigns$ is the previous list with every entry
\* whose id is id replaced by d and the others kept in place, and selectedCampaign$
\* becomes d exactly when the selected campaign has that id.
C22_UpdateReplacesById ==
    [][\A t \in DOMAIN tasks :
          (UpdateSettles(t) /\ OkData(done'.api.value))
          => LET d == done'.api.value.data
                 id == tasks[t].arg
             IN  /\ done'.completion.type = "return" /\ done'.completion.value = TRUE
                 /\ Len(campaigns') = Len(campaigns)
                 /\ \A i \in DOMAIN campaigns :
                       campaigns'[i] = IF campaigns[i].id = id THEN d ELSE campaigns[i]
                 /\ selectedCampaign' =
                      IF selectedCampaign # Null /\ selectedCampaign.id = id
                      THEN d ELSE selectedCampaign]_vars

\* C22 witness: startCampaign("1") settled with the updated campaign on a list
\* that has two entries with id 1, the first of them selected
C22_Witness ==
    /\ done.op = "startCampaign" /\ done.arg = "1" /\ done.api.kind = "resolved"
    /\ done.completion.type = "return" /\ done.completion.value = TRUE
    /\ campaigns = <<Campaign("1", "paused"), CampaignB, Campaign("1", "paused")>>
    /\ selectedCampaign = Campaign("1", "paused")

\* C23: selectCampaign(id) sets selectedCampaign$ to a campaign of the current list
\* whose id is id, and to null when the list has none, whatever was selected
\* before; campaigns$ is not changed.
C23_SelectByIdOrNull ==
    [][(done'.op = "selectCampaign" /\ done' # done)
       => /\ campaigns' = campaigns
          /\ IF \E i \in DOMAIN campaigns : campaigns[i].id = done'.arg
             THEN /\ selectedCampaign'.id = done'.arg
                  /\ \E i \in DOMAIN campaigns : campaigns[i] = selectedCampaign'
             ELSE selectedCampaign' = Null]_vars

\* C23 witness: an id that is not in the list was selected while a startCampaign
\* was pending, and the selection is null
C23_Witness ==
    /\ done.op = "selectCampaign" /\ done.arg = "3"
    /\ campaigns = <<CampaignA, CampaignB>> /\ selectedCampaign = Null
    /\ \E t \in DOMAIN tasks : tasks[t].op = "startCampaign" /\ tasks[t].arg = "1"

\* C24 (as claimed): every settled call of loadCampaigns, startCampaign or
\* pauseCampaign has resolved; none has rejected, also when the API call rejected.
C24_AsyncMethodsResolve ==
    done.op \in {"loadCampaigns", "startCampaign", "pauseCampaign"}
    => done.completion.type = "return"

\* C25 (as claimed): loading$ is true exactly when at least one loadCampaigns call
\* has started and not settled.
C25_LoadingIffInFlight ==
    loading <=> \E t \in DOMAIN tasks :
                    tasks[t].op = "loadCampaigns" /\ tasks[t].pc = "awaiting"

\* C29 (as claimed): selectedCampaign$ is null or equal to an element of the
\* current campaigns$ list.
C29_SelectionInList ==
    selectedCampaign = Null \/ \E i \in DOMAIN campaigns : campaigns[i] = selectedCampaign

\* C26: no step of any adapter operation changes the configuration; the prefix
\* and every continuation of a call that is not an auto-cancel GET (post, put,
\* delete, patch, postFile, getText, get without useAbort) leaves the controller
\* field as it was, and so does composePath, which also leaves serverDateDiff;
\* getServerDateDiff is a read.
C26_FrameOfAdapterState ==
    [][/\ config' = config
       /\ (Len(calls') > Len(calls) /\ ~calls'[Len(calls')].useAbort)
             => controller' = controller /\ serverDateDiff' = serverDateDiff
       /\ \A c \in DOMAIN calls :
             (calls'[c] # calls[c] /\ ~calls[c].useAbort) => controller' = controller
       /\ composed' # composed
             => controller' = controller /\ serverDateDiff' = serverDateDiff
       /\ getServerDateDiff' = serverDateDiff']_vars

\* C26 witness: a doPatch was issued and has settled while an auto-cancel GET was
\* in flight, a URL was composed, and the controller still refers to that GET
C26_Witness ==
    /\ controller = 1 /\ InFlight(1)
    /\ ret.id = 2 /\ ret.verb = "doPatch"
    /\ composed.completion.type = "return"
    /\ config = LocalConf

\* C27: whenever no auto-cancel GET is in flight the controller field is empty.
C27_SlotEmptyWhenIdle ==
    (\A c \in DOMAIN calls : InFlight(c) => ~calls[c].useAbort) => controller = 0

\* C27 witness: two auto-cancel GETs have been issued, the last settlement was
\* one of them, nothing is in flight and the controller field is empty
C27_Witness ==
    /\ Len(calls) >= 2 /\ \A c \in DOMAIN calls : ~InFlight(c)
    /\ Settled /\ ret.useAbort /\ ret.id = 1
    /\ controller = 0

\* C28: a doGet given both options.signal and useAbort hands fetch the signal of
\* the adapter's own controller: while it is in flight its signal is that one;
\* a step that aborts the caller's token changes neither the call nor the state
\* of its signal; the call settles as a cancellation only when its own signal
\* was aborted; and an auto-cancel GET issued while the controller field refers
\* to the call aborts it.
C28_BoundToOwnController ==
    /\ [](\A c \in DOMAIN calls :
            (InFlight(c) /\ calls[c].useAbort) => calls[c].signal = AutoSignal(c))
    /\ [][\A c \in DOMAIN calls :
            (InFlight(c) /\ calls[c].useAbort /\ calls[c].optionsSignal # NoSignal) =>
                /\ (calls[c].optionsSignal \notin aborted /\ calls[c].optionsSignal \in aborted')
                      => /\ calls'[c] = calls[c]
                         /\ AutoSignal(c) \in aborted' <=> AutoSignal(c) \in aborted
                /\ (calls'[c].pc = "settled" /\ ret'.thrown = AbortError)
                      => AutoSignal(c) \in aborted
                /\ (IssuesAutoGet /\ controller = c) => AutoSignal(c) \in aborted']_vars

\* C28 witness: the first call was a doGet with a manual token and useAbort; the
\* token was aborted and the call went on to read its body; a second auto-cancel
\* GET has then aborted it
C28_Witness ==
    /\ Len(calls) = 2 /\ InFlight(2) /\ calls[2].useAbort
    /\ calls[1].pc = "decoding" /\ calls[1].useAbort
    /\ calls[1].optionsSignal = ManualSignal(1)
    /\ ManualSignal(1) \in aborted /\ AutoSignal(1) \in aborted

\* C30: once init has been called, the container has loaded exactly the logger,
\* API and outbound modules, once each and in that order, and the bound API
\* configuration is that of the first call; the first call of init loads them and
\* every later call, also one made before an earlier call was awaited and one
\* given another apiBaseUrl, changes nothing in the container.
C30_InitLoadsOnce ==
    /\ [](inits # <<>> =>
            /\ initialized
            /\ loaded = <<"loggerModule", "apiModule", "outboundModule">>
            /\ apiConf = [apiUrl |-> inits[1].options.apiBaseUrl])
    /\ [][Len(inits') > Len(inits) =>
            IF inits = <<>>
            THEN loaded' = <<"loggerModule", "apiModule", "outboundModule">>
            ELSE /\ loaded' = loaded /\ apiConf' = apiConf
                 /\ initialized' = initialized]_vars

\* C30 witness: init was called three times with different base URLs, the later
\* calls before the first was awaited; the modules are loaded once and the bound
\* configuration is the first call's
C30_Witness ==
    /\ Len(inits) = 3 /\ ~inits[1].awaited /\ inits[3].awaited
    /\ inits[1].options.apiBaseUrl = LocalConf.apiUrl
    /\ inits[2].options.apiBaseUrl = <<>>
    /\ inits[3].options.apiBaseUrl # LocalConf.apiUrl
    /\ Len(loaded) = 3 /\ apiConf.apiUrl = LocalConf.apiUrl

====
